---- MODULE Spec2Model ----
(***************************************************************************)
(* A model of lib/lock.js: Lock objects that take and give back a redis   *)
(* key with `SET key id PX timeout NX` and the `delifequal` script.        *)
(*                                                                         *)
(* Every request a Lock sends travels on its client's connection: the      *)
(* server executes the requests of one connection in the order they were   *)
(* sent and the replies of one connection are handled in that order.       *)
(* Connections are independent of each other.  A key that was written      *)
(* with PX may be removed by the server at any later moment (Expire).      *)
(*                                                                         *)
(* A call is kept in `calls` from the moment it is made until it settles;  *)
(* the step that settles it publishes its outcome in `settled`, which      *)
(* holds that outcome in the state right after the step and no longer.     *)
(***************************************************************************)
EXTENDS Integers, Sequences, FiniteSets, TLC

\* ------------------------------------------------------------------ bounds
MaxInflight == 2     \* acquire/release calls not yet settled, all Locks
MaxRetries == 1      \* largest `retries` option passed to a constructor

\* ------------------------------------------------------- program constants
DefaultTimeout == 10000
DefaultRetries == 0
DefaultDelay == 100

\* ---------------------------------------------------------------- universe
LockOrder == <<"A", "B">>        \* the Locks, in the order of construction
ConnOrder == <<"c1", "c2">>      \* the connections, in the order of first use
Locks == {LockOrder[i] : i \in DOMAIN LockOrder}
Conns == {ConnOrder[i] : i \in DOMAIN ConnOrder}
Keys == {"res1", "res2"}
Nil == "nil"                     \* no value stored at a key
NoKey == "null"                  \* lock.key = null
NoId == "unset"                  \* the id of a Lock not constructed yet
NoHandle == 0                    \* no Shavaluator: an absent registry entry
RetryOptions == 0..MaxRetries
Slots == 1..MaxInflight

VARIABLES
  constructed,          \* the Locks that `new Lock(...)` has returned
  id,                   \* lock.id
  locked,               \* lock.locked
  key,                  \* lock.key
  client,               \* lock._client: the connection its requests go to
  shavaluator,          \* lock._shavaluator: the script handle it uses
  retries,              \* lock.retries
  delay,                \* lock.delay
  timeout,              \* lock.timeout
  promisifiedClients,   \* Lock._promisifiedClients: connection id -> client
  shavaluators,         \* Lock._shavaluators: connection id -> script handle
  wrapped,              \* history: promisify passes made, per connection
  registered,           \* history: add('delifequal') calls, per connection
  acquiredLocks,        \* Lock._acquiredLocks (lock ids)
  store,                \* the server: key -> stored value, or Nil
  ttl,                  \* the server: key -> PX of the stored value, 0 if none
  reqQ,                 \* per connection: requests sent, not yet executed
  respQ,                \* per connection: replies produced, not yet handled
  calls,                \* per Lock: its acquire/release calls not yet settled
  settled,              \* the call that settled in the latest step, if any
  lapsed                \* history: Locks whose write for lock.key has expired

vars == <<constructed, id, locked, key, client, shavaluator, retries, delay,
          timeout, promisifiedClients, shavaluators, wrapped, registered,
          acquiredLocks, store, ttl, reqQ, respQ, calls, settled, lapsed>>

lockVars == <<constructed, id, client, shavaluator, retries, delay, timeout,
              promisifiedClients, shavaluators, wrapped, registered>>

serverVars == <<store, ttl>>

\* uuid.v1(): a value no other call returns.
Uuid(l) == "id" \o l

\* ------------------------------------------------------------- the server
\* SET key value PX px [NX]: with NX, writes only when the key is absent.
\* The reply is 1 for OK and 0 for nil.
SetCmd(s, m) ==
  IF m.nx /\ s[m.key] # Nil THEN s ELSE [s EXCEPT ![m.key] = m.val]

SetCmdReply(s, m) == IF m.nx /\ s[m.key] # Nil THEN 0 ELSE 1

\* The delifequal script: delete the key only if it holds the given value.
DelIfEqual(s, k, v) == IF s[k] = v THEN [s EXCEPT ![k] = Nil] ELSE s

DelIfEqualReply(s, k, v) == IF s[k] = v THEN 1 ELSE 0

\* ------------------------------------------------------------------ calls
\* One acquire or release call of a Lock that has not settled.  pc: "wait"
\* (a request of the call is on its way), "delay" (Promise.delay is pending).
\* attempts, delays, eff and lapsed are history: requests sent, delays
\* started, what the server did with the call's last request, and whether
\* the value that request wrote has expired since.
NewCall(op, k, r, pc, attempts) ==
  [op |-> op, key |-> k, retries |-> r, pc |-> pc, attempts |-> attempts,
   delays |-> 0, eff |-> "none", lapsed |-> FALSE]

NoCall == NewCall("none", NoKey, 0, "free", 0)

\* The calls of Lock l that have not settled.
Unsettled(l) == {n \in Slots : calls[l][n].pc # "free"}

RECURSIVE SumUnsettled(_)
SumUnsettled(S) ==
  IF S = {} THEN 0
  ELSE LET x == CHOOSE y \in S : TRUE
       IN  Cardinality(Unsettled(x)) + SumUnsettled(S \ {x})

InFlight == SumUnsettled(Locks)

\* The record a new call of Lock l is kept in.
FreeSlot(l) == CHOOSE n \in Slots \ Unsettled(l) :
                 \A m \in Slots \ Unsettled(l) : n <= m

\* Call cl of Lock l settles with the given result: the promise chain that
\* ends in .nodeify(fn) settles.  fnCalls and fnResult: how often a
\* completion callback fn, when the caller gave one, is invoked for this
\* outcome, and the outcome it is invoked with.
Settled(l, cl, kind, errKey) ==
  [lock |-> l, op |-> cl.op, key |-> cl.key, result |-> kind,
   errKey |-> errKey, attempts |-> cl.attempts, delays |-> cl.delays,
   eff |-> cl.eff, opt |-> retries[l], fnCalls |-> 1, fnResult |-> kind]

\* An outcome that leaves the call before .nodeify(fn) is reached (`return
\* Promise.reject(...)` in acquire, `throw` in release): fn is not invoked.
NotNodeified(out) == [out EXCEPT !.fnCalls = 0, !.fnResult = "none"]

\* No call settled in the latest step.
NoOutcome ==
  [lock |-> Nil, op |-> "none", key |-> NoKey, result |-> "none",
   errKey |-> NoKey, attempts |-> 0, delays |-> 0, eff |-> "none", opt |-> 0,
   fnCalls |-> 0, fnResult |-> "none"]

\* Faulty variant: the conditional write without its NX flag.
SetRequestNoNX(l, n, k) ==
  [lock |-> l, call |-> n, cmd |-> "set", key |-> k, val |-> id[l],
   px |-> timeout[l], nx |-> FALSE]

\* Faulty variant: the conditional write stores the key as the value.
SetRequestKeyAsValue(l, n, k) ==
  [lock |-> l, call |-> n, cmd |-> "set", key |-> k, val |-> k,
   px |-> timeout[l], nx |-> TRUE]

\* client.setAsync(key, this.id, 'PX', this.timeout, 'NX')
SetRequest(l, n, k) ==
  [lock |-> l, call |-> n, cmd |-> "set", key |-> k, val |-> id[l],
   px |-> timeout[l], nx |-> TRUE]

\* Faulty variant: the release deletes whatever value the key holds.
ScriptRequestAnyOwner(l, n, k) ==
  [lock |-> l, call |-> n, cmd |-> "delifequal", key |-> k, val |-> store[k],
   px |-> 0, nx |-> FALSE]

\* shaval.execAsync('delifequal', [key], [this.id])
ScriptRequest(l, n, k) ==
  [lock |-> l, call |-> n, cmd |-> "delifequal", key |-> k, val |-> id[l],
   px |-> 0, nx |-> FALSE]

Init ==
  /\ constructed = {}
  /\ id = [l \in Locks |-> NoId]
  /\ locked = [l \in Locks |-> FALSE]
  /\ key = [l \in Locks |-> NoKey]
  /\ client = [l \in Locks |-> Nil]
  /\ shavaluator = [l \in Locks |-> NoHandle]
  /\ retries = [l \in Locks |-> DefaultRetries]
  /\ delay = [l \in Locks |-> DefaultDelay]
  /\ timeout = [l \in Locks |-> DefaultTimeout]
  /\ promisifiedClients = [c \in Conns |-> Nil]
  /\ shavaluators = [c \in Conns |-> NoHandle]
  /\ wrapped = [c \in Conns |-> 0]
  /\ registered = [c \in Conns |-> 0]
  /\ acquiredLocks = {}
  /\ store = [k \in Keys |-> Nil]
  /\ ttl = [k \in Keys |-> 0]
  /\ reqQ = [c \in Conns |-> <<>>]
  /\ respQ = [c \in Conns |-> <<>>]
  /\ calls = [l \in Locks |-> [n \in Slots |-> NoCall]]
  /\ settled = NoOutcome
  /\ lapsed = {}

\* The next Lock to be constructed, and the connections it may be given:
\* one already in use, or the next new one.
NextLock == LockOrder[Cardinality(constructed) + 1]

NextConns ==
  {ConnOrder[i] :
     i \in 1..(Cardinality({c \in Conns : promisifiedClients[c] # Nil}) + 1)
           \cap DOMAIN ConnOrder}

\* Faulty variant: the client is wrapped and stored without a look at the
\* registry.
SetupClientAlways(l, c) ==
  /\ wrapped' = [wrapped EXCEPT ![c] = @ + 1]
  /\ promisifiedClients' = [promisifiedClients EXCEPT ![c] = c]
  /\ client' = [client EXCEPT ![l] = c]

\* lock._setupClient(client), for the client of connection c
SetupClient(l, c) ==
  IF promisifiedClients[c] # Nil
    THEN /\ client' = [client EXCEPT ![l] = promisifiedClients[c]]
         /\ UNCHANGED <<promisifiedClients, wrapped>>
    ELSE /\ wrapped' = [wrapped EXCEPT ![c] = @ + 1]
         /\ promisifiedClients' = [promisifiedClients EXCEPT ![c] = c]
         /\ client' = [client EXCEPT ![l] = c]

\* new Shavaluator(client): a handle no earlier call has returned.
NewShavaluator ==
  1 + Cardinality({d \in Conns : registered[d] > 0})
    + Cardinality({d \in Conns : registered[d] > 1})

\* Faulty variant: a Shavaluator is created and the script added on every
\* construction.
SetupLuaScriptsAlways(l, c) ==
  /\ shavaluators' = [shavaluators EXCEPT ![c] = NewShavaluator]
  /\ registered' = [registered EXCEPT ![c] = @ + 1]
  /\ shavaluator' = [shavaluator EXCEPT ![l] = shavaluators'[c]]

\* lock._setupLuaScripts(client), for the client of connection c
SetupLuaScripts(l, c) ==
  /\ IF shavaluators[c] = NoHandle
       THEN /\ shavaluators' = [shavaluators EXCEPT ![c] = NewShavaluator]
            /\ registered' = [registered EXCEPT ![c] = @ + 1]
       ELSE UNCHANGED <<shavaluators, registered>>
  /\ shavaluator' = [shavaluator EXCEPT ![l] = shavaluators'[c]]

\* new Lock(client, {retries: r})
Construct(l, c, r) ==
  /\ Cardinality(constructed) < Len(LockOrder)
  /\ l = NextLock
  /\ c \in NextConns
  /\ constructed' = constructed \cup {l}
  /\ id' = [id EXCEPT ![l] = Uuid(l)]
  /\ locked' = [locked EXCEPT ![l] = FALSE]
  /\ key' = [key EXCEPT ![l] = NoKey]
  /\ SetupClient(l, c)
  /\ SetupLuaScripts(l, c)
  /\ retries' = [retries EXCEPT ![l] = r]
  /\ settled' = NoOutcome
  /\ UNCHANGED <<delay, timeout, acquiredLocks, serverVars, reqQ, respQ,
                 calls, lapsed>>

\* lock._attemptLock(key, r): one conditional write is sent.
AttemptLock(l, n, k) ==
  reqQ' = [reqQ EXCEPT ![client[l]] = Append(@, SetRequest(l, n, k))]

\* Faulty variant: acquire without the check of this.locked.
AcquireNoGuard(l, k) ==
  /\ l \in constructed
  /\ InFlight < MaxInflight
  /\ calls' = [calls EXCEPT ![l][FreeSlot(l)] =
       NewCall("acquire", k, retries[l], "wait", 1)]
  /\ AttemptLock(l, FreeSlot(l), k)
  /\ settled' = NoOutcome
  /\ UNCHANGED <<lockVars, locked, key, acquiredLocks, serverVars, respQ,
                 lapsed>>

\* lock.acquire(k)
Acquire(l, k) ==
  /\ l \in constructed
  /\ InFlight < MaxInflight
  /\ IF locked[l]
       THEN /\ settled' = NotNodeified(
                 Settled(l, NewCall("acquire", k, retries[l], "done", 0),
                         "LockAcquisitionError:held", NoKey))
            /\ UNCHANGED <<reqQ, calls>>
       ELSE /\ calls' = [calls EXCEPT ![l][FreeSlot(l)] =
                 NewCall("acquire", k, retries[l], "wait", 1)]
            /\ AttemptLock(l, FreeSlot(l), k)
            /\ settled' = NoOutcome
  /\ UNCHANGED <<lockVars, locked, key, acquiredLocks, serverVars, respQ,
                 lapsed>>

\* Faulty variant: release without the check of this.locked.
ReleaseNoGuard(l) ==
  /\ l \in constructed
  /\ InFlight < MaxInflight
  /\ calls' = [calls EXCEPT ![l][FreeSlot(l)] =
       NewCall("release", key[l], 0, "wait", 1)]
  /\ reqQ' = [reqQ EXCEPT ![client[l]] =
       Append(@, ScriptRequest(l, FreeSlot(l), key[l]))]
  /\ settled' = NoOutcome
  /\ UNCHANGED <<lockVars, locked, key, acquiredLocks, serverVars, respQ,
                 lapsed>>

\* lock.release()
Release(l) ==
  /\ l \in constructed
  /\ InFlight < MaxInflight
  /\ IF ~locked[l]
       THEN /\ settled' = NotNodeified(
                 Settled(l, NewCall("release", key[l], 0, "done", 0),
                         "LockReleaseError:notAcquired", NoKey))
            /\ UNCHANGED <<reqQ, calls>>
       ELSE /\ calls' = [calls EXCEPT ![l][FreeSlot(l)] =
                 NewCall("release", key[l], 0, "wait", 1)]
            /\ reqQ' = [reqQ EXCEPT ![client[l]] =
                 Append(@, ScriptRequest(l, FreeSlot(l), key[l]))]
            /\ settled' = NoOutcome
  /\ UNCHANGED <<lockVars, locked, key, acquiredLocks, serverVars, respQ,
                 lapsed>>

\* The server executes the oldest request of connection c: a SET.
ServerSet(c) ==
  /\ reqQ[c] # <<>>
  /\ Head(reqQ[c]).cmd = "set"
  /\ LET m == Head(reqQ[c])
         res == SetCmdReply(store, m)
     IN  /\ store' = SetCmd(store, m)
         /\ ttl' = IF res = 1 THEN [ttl EXCEPT ![m.key] = m.px] ELSE ttl
         /\ respQ' = [respQ EXCEPT ![c] =
              Append(@, [lock |-> m.lock, call |-> m.call, cmd |-> m.cmd,
                         res |-> res])]
         /\ calls' = [calls EXCEPT ![m.lock][m.call].eff =
              IF res = 1 THEN "written" ELSE "rejected"]
  /\ reqQ' = [reqQ EXCEPT ![c] = Tail(@)]
  /\ settled' = NoOutcome
  /\ UNCHANGED <<lockVars, locked, key, acquiredLocks, lapsed>>

\* The server executes the oldest request of connection c: the script.
ServerScript(c) ==
  /\ reqQ[c] # <<>>
  /\ Head(reqQ[c]).cmd = "delifequal"
  /\ LET m == Head(reqQ[c])
         res == DelIfEqualReply(store, m.key, m.val)
     IN  /\ store' = DelIfEqual(store, m.key, m.val)
         /\ ttl' = IF store'[m.key] # store[m.key]
                     THEN [ttl EXCEPT ![m.key] = 0] ELSE ttl
         /\ respQ' = [respQ EXCEPT ![c] =
              Append(@, [lock |-> m.lock, call |-> m.call, cmd |-> m.cmd,
                         res |-> res])]
         /\ calls' = [calls EXCEPT ![m.lock][m.call].eff =
              IF store'[m.key] # store[m.key] THEN "deleted" ELSE "kept"]
  /\ reqQ' = [reqQ EXCEPT ![c] = Tail(@)]
  /\ settled' = NoOutcome
  /\ UNCHANGED <<lockVars, locked, key, acquiredLocks, lapsed>>

\* The server drops a key whose PX has run out.
Expire(k) ==
  /\ store[k] # Nil
  /\ ttl[k] > 0
  /\ store' = [store EXCEPT ![k] = Nil]
  /\ ttl' = [ttl EXCEPT ![k] = 0]
  /\ lapsed' = lapsed \cup
       {l \in Locks : id[l] = store[k] /\ locked[l] /\ key[l] = k}
  /\ calls' = [l \in Locks |-> [n \in Slots |->
       IF /\ id[l] = store[k]
          /\ calls[l][n].op = "acquire"
          /\ calls[l][n].key = k
          /\ calls[l][n].eff = "written"
          /\ calls[l][n].pc = "wait"
         THEN [calls[l][n] EXCEPT !.lapsed = TRUE]
         ELSE calls[l][n]]]
  /\ settled' = NoOutcome
  /\ UNCHANGED <<lockVars, locked, key, acquiredLocks, reqQ, respQ>>

\* Faulty variant: _attemptLock resolves whatever the reply is.
AttemptLockReplyAlwaysOk(c) ==
  /\ respQ[c] # <<>>
  /\ Head(respQ[c]).cmd = "set"
  /\ LET m == Head(respQ[c])
         l == m.lock
         n == m.call
         cl == calls[l][n]
     IN  /\ calls' = [calls EXCEPT ![l][n] = NoCall]
         /\ settled' = Settled(l, cl, "ok", NoKey)
         /\ locked' = [locked EXCEPT ![l] = TRUE]
         /\ key' = [key EXCEPT ![l] = cl.key]
         /\ acquiredLocks' = acquiredLocks \cup {id[l]}
         /\ lapsed' = IF cl.lapsed THEN lapsed \cup {l} ELSE lapsed \ {l}
  /\ respQ' = [respQ EXCEPT ![c] = Tail(@)]
  /\ UNCHANGED <<lockVars, serverVars, reqQ>>

\* Faulty variant: _attemptLock retries a rejected write even when no retries remain.
AttemptLockReplyRetriesOn(c) ==
  /\ respQ[c] # <<>>
  /\ Head(respQ[c]).cmd = "set"
  /\ LET m == Head(respQ[c])
         l == m.lock
         n == m.call
         cl == calls[l][n]
     IN  IF m.res # 0
           THEN /\ calls' = [calls EXCEPT ![l][n] = NoCall]
                /\ settled' = Settled(l, cl, "ok", NoKey)
                /\ locked' = [locked EXCEPT ![l] = TRUE]
                /\ key' = [key EXCEPT ![l] = cl.key]
                /\ acquiredLocks' = acquiredLocks \cup {id[l]}
                /\ lapsed' = IF cl.lapsed THEN lapsed \cup {l}
                                          ELSE lapsed \ {l}
           ELSE /\ calls' = [calls EXCEPT ![l][n].pc = "delay",
                       ![l][n].delays = @ + 1]
                /\ settled' = NoOutcome
                /\ UNCHANGED <<locked, key, acquiredLocks, lapsed>>
  /\ respQ' = [respQ EXCEPT ![c] = Tail(@)]
  /\ UNCHANGED <<lockVars, serverVars, reqQ>>

\* Faulty variant: a failed acquisition resets the Lock.
AttemptLockReplyResets(c) ==
  /\ respQ[c] # <<>>
  /\ Head(respQ[c]).cmd = "set"
  /\ LET m == Head(respQ[c])
         l == m.lock
         n == m.call
         cl == calls[l][n]
     IN  IF m.res = 0 /\ cl.retries = 0
           THEN /\ calls' = [calls EXCEPT ![l][n] = NoCall]
                /\ settled' = Settled(l, cl, "LockAcquisitionError", cl.key)
                /\ locked' = [locked EXCEPT ![l] = FALSE]
                /\ key' = [key EXCEPT ![l] = NoKey]
                /\ UNCHANGED <<acquiredLocks, lapsed>>
           ELSE IF m.res # 0
             THEN /\ calls' = [calls EXCEPT ![l][n] = NoCall]
                  /\ settled' = Settled(l, cl, "ok", NoKey)
                  /\ locked' = [locked EXCEPT ![l] = TRUE]
                  /\ key' = [key EXCEPT ![l] = cl.key]
                  /\ acquiredLocks' = acquiredLocks \cup {id[l]}
                  /\ lapsed' = IF cl.lapsed THEN lapsed \cup {l}
                                            ELSE lapsed \ {l}
             ELSE /\ calls' = [calls EXCEPT ![l][n].pc = "delay",
                         ![l][n].delays = @ + 1]
                  /\ settled' = NoOutcome
                  /\ UNCHANGED <<locked, key, acquiredLocks, lapsed>>
  /\ respQ' = [respQ EXCEPT ![c] = Tail(@)]
  /\ UNCHANGED <<lockVars, serverVars, reqQ>>

\* The reply to a conditional write reaches _attemptLock's and acquire's
\* `then` handlers.
AttemptLockReply(c) ==
  /\ respQ[c] # <<>>
  /\ Head(respQ[c]).cmd = "set"
  /\ LET m == Head(respQ[c])
         l == m.lock
         n == m.call
         cl == calls[l][n]
     IN  IF m.res = 0 /\ cl.retries = 0
           THEN /\ calls' = [calls EXCEPT ![l][n] = NoCall]
                /\ settled' = Settled(l, cl, "LockAcquisitionError", cl.key)
                /\ UNCHANGED <<locked, key, acquiredLocks, lapsed>>
           ELSE IF m.res # 0
             THEN /\ calls' = [calls EXCEPT ![l][n] = NoCall]
                  /\ settled' = Settled(l, cl, "ok", NoKey)
                  /\ locked' = [locked EXCEPT ![l] = TRUE]
                  /\ key' = [key EXCEPT ![l] = cl.key]
                  /\ acquiredLocks' = acquiredLocks \cup {id[l]}
                  /\ lapsed' = IF cl.lapsed THEN lapsed \cup {l}
                                            ELSE lapsed \ {l}
             ELSE /\ calls' = [calls EXCEPT ![l][n].pc = "delay",
                         ![l][n].delays = @ + 1]
                  /\ settled' = NoOutcome
                  /\ UNCHANGED <<locked, key, acquiredLocks, lapsed>>
  /\ respQ' = [respQ EXCEPT ![c] = Tail(@)]
  /\ UNCHANGED <<lockVars, serverVars, reqQ>>

\* Faulty variant: the retry passes `retries` on unchanged.
DelayElapsedSameRetries(l, n) ==
  /\ calls[l][n].pc = "delay"
  /\ calls' = [calls EXCEPT ![l][n].pc = "wait",
                 ![l][n].attempts = @ + 1]
  /\ AttemptLock(l, n, calls[l][n].key)
  /\ settled' = NoOutcome
  /\ UNCHANGED <<lockVars, locked, key, acquiredLocks, serverVars, respQ,
                 lapsed>>

\* Promise.delay(lock.delay) has elapsed: _attemptLock(key, retries - 1).
DelayElapsed(l, n) ==
  /\ calls[l][n].pc = "delay"
  /\ calls' = [calls EXCEPT ![l][n].pc = "wait",
                 ![l][n].retries = @ - 1,
                 ![l][n].attempts = @ + 1]
  /\ AttemptLock(l, n, calls[l][n].key)
  /\ settled' = NoOutcome
  /\ UNCHANGED <<lockVars, locked, key, acquiredLocks, serverVars, respQ,
                 lapsed>>

\* Faulty variant: release throws on a reply of 0 before it clears locked and key.
ReleaseReplyThrowsFirst(c) ==
  /\ respQ[c] # <<>>
  /\ Head(respQ[c]).cmd = "delifequal"
  /\ LET m == Head(respQ[c])
         l == m.lock
         n == m.call
         cl == calls[l][n]
     IN  /\ locked' = IF m.res = 0 THEN locked
                                   ELSE [locked EXCEPT ![l] = FALSE]
         /\ key' = IF m.res = 0 THEN key ELSE [key EXCEPT ![l] = NoKey]
         /\ lapsed' = IF m.res = 0 THEN lapsed ELSE lapsed \ {l}
         /\ calls' = [calls EXCEPT ![l][n] = NoCall]
         /\ settled' = IF m.res = 0
                         THEN Settled(l, cl, "LockReleaseError", cl.key)
                         ELSE Settled(l, cl, "ok", NoKey)
  /\ respQ' = [respQ EXCEPT ![c] = Tail(@)]
  /\ UNCHANGED <<lockVars, acquiredLocks, serverVars, reqQ>>

\* Faulty variant: release clears locked but leaves lock.key as it was.
ReleaseReplyKeepsKey(c) ==
  /\ respQ[c] # <<>>
  /\ Head(respQ[c]).cmd = "delifequal"
  /\ LET m == Head(respQ[c])
         l == m.lock
         n == m.call
         cl == calls[l][n]
     IN  /\ locked' = [locked EXCEPT ![l] = FALSE]
         /\ lapsed' = lapsed \ {l}
         /\ calls' = [calls EXCEPT ![l][n] = NoCall]
         /\ settled' = IF m.res = 0
                         THEN Settled(l, cl, "LockReleaseError", cl.key)
                         ELSE Settled(l, cl, "ok", NoKey)
  /\ respQ' = [respQ EXCEPT ![c] = Tail(@)]
  /\ UNCHANGED <<lockVars, key, acquiredLocks, serverVars, reqQ>>

\* Faulty variant: release clears lock.key but leaves lock.locked set.
ReleaseReplyKeepsLocked(c) ==
  /\ respQ[c] # <<>>
  /\ Head(respQ[c]).cmd = "delifequal"
  /\ LET m == Head(respQ[c])
         l == m.lock
         n == m.call
         cl == calls[l][n]
     IN  /\ key' = [key EXCEPT ![l] = NoKey]
         /\ lapsed' = lapsed \ {l}
         /\ calls' = [calls EXCEPT ![l][n] = NoCall]
         /\ settled' = IF m.res = 0
                         THEN Settled(l, cl, "LockReleaseError", cl.key)
                         ELSE Settled(l, cl, "ok", NoKey)
  /\ respQ' = [respQ EXCEPT ![c] = Tail(@)]
  /\ UNCHANGED <<lockVars, locked, acquiredLocks, serverVars, reqQ>>

\* The reply of the delifequal script reaches release's `then` handler.
ReleaseReply(c) ==
  /\ respQ[c] # <<>>
  /\ Head(respQ[c]).cmd = "delifequal"
  /\ LET m == Head(respQ[c])
         l == m.lock
         n == m.call
         cl == calls[l][n]
     IN  /\ locked' = [locked EXCEPT ![l] = FALSE]
         /\ key' = [key EXCEPT ![l] = NoKey]
         /\ lapsed' = lapsed \ {l}
         /\ calls' = [calls EXCEPT ![l][n] = NoCall]
         /\ settled' = IF m.res = 0
                      THEN Settled(l, cl, "LockReleaseError", cl.key)
                      ELSE Settled(l, cl, "ok", NoKey)
  /\ respQ' = [respQ EXCEPT ![c] = Tail(@)]
  /\ UNCHANGED <<lockVars, acquiredLocks, serverVars, reqQ>>

Next ==
  \/ \E l \in Locks, c \in Conns, r \in RetryOptions : Construct(l, c, r)
  \/ \E l \in Locks, k \in Keys : Acquire(l, k)
  \/ \E l \in Locks : Release(l)
  \/ \E c \in Conns : ServerSet(c)
  \/ \E c \in Conns : ServerScript(c)
  \/ \E k \in Keys : Expire(k)
  \/ \E c \in Conns : AttemptLockReply(c)
  \/ \E l \in Locks, n \in Slots : DelayElapsed(l, n)
  \/ \E c \in Conns : ReleaseReply(c)

Spec == Init /\ [][Next]_vars

\* ------------------------------------------------------ transport errors
\* The store (or the connection to it) answers the oldest request of
\* connection c with an error instead of executing it.
ServerFails(c) ==
  /\ reqQ[c] # <<>>
  /\ LET m == Head(reqQ[c])
     IN  respQ' = [respQ EXCEPT ![c] =
           Append(@, [lock |-> m.lock, call |-> m.call, cmd |-> "error",
                      res |-> 0])]
  /\ reqQ' = [reqQ EXCEPT ![c] = Tail(@)]
  /\ settled' = NoOutcome
  /\ UNCHANGED <<lockVars, locked, key, acquiredLocks, serverVars, calls,
                 lapsed>>

\* Faulty variant: a failed conditional write is treated like a rejected one.
AttemptLockErrorRetried(c) ==
  /\ respQ[c] # <<>>
  /\ Head(respQ[c]).cmd = "error"
  /\ calls[Head(respQ[c]).lock][Head(respQ[c]).call].op = "acquire"
  /\ LET m == Head(respQ[c])
         l == m.lock
         n == m.call
         cl == calls[l][n]
     IN  IF cl.retries = 0
           THEN /\ calls' = [calls EXCEPT ![l][n] = NoCall]
                /\ settled' = Settled(l, cl, "TransportError", NoKey)
           ELSE /\ calls' = [calls EXCEPT ![l][n].pc = "delay",
                       ![l][n].delays = @ + 1]
                /\ settled' = NoOutcome
  /\ respQ' = [respQ EXCEPT ![c] = Tail(@)]
  /\ UNCHANGED <<lockVars, locked, key, acquiredLocks, serverVars, reqQ,
                 lapsed>>

\* client.setAsync(...) is rejected: the `then` handlers of _attemptLock and
\* of acquire are skipped and the error is the outcome of the call.
AttemptLockError(c) ==
  /\ respQ[c] # <<>>
  /\ Head(respQ[c]).cmd = "error"
  /\ calls[Head(respQ[c]).lock][Head(respQ[c]).call].op = "acquire"
  /\ LET m == Head(respQ[c])
         l == m.lock
         n == m.call
         cl == calls[l][n]
     IN  /\ calls' = [calls EXCEPT ![l][n] = NoCall]
         /\ settled' = Settled(l, cl, "TransportError", NoKey)
  /\ respQ' = [respQ EXCEPT ![c] = Tail(@)]
  /\ UNCHANGED <<lockVars, locked, key, acquiredLocks, serverVars, reqQ,
                 lapsed>>

\* shaval.execAsync(...) is rejected: release's `then` handler is skipped and
\* the error is the outcome of the call.
ReleaseError(c) ==
  /\ respQ[c] # <<>>
  /\ Head(respQ[c]).cmd = "error"
  /\ calls[Head(respQ[c]).lock][Head(respQ[c]).call].op = "release"
  /\ LET m == Head(respQ[c])
         l == m.lock
         n == m.call
         cl == calls[l][n]
     IN  /\ calls' = [calls EXCEPT ![l][n] = NoCall]
         /\ settled' = Settled(l, cl, "TransportError", NoKey)
  /\ respQ' = [respQ EXCEPT ![c] = Tail(@)]
  /\ UNCHANGED <<lockVars, locked, key, acquiredLocks, serverVars, reqQ,
                 lapsed>>

\* The program with a store whose answers may be errors.
NextErr ==
  \/ Next
  \/ \E c \in Conns : ServerFails(c)
  \/ \E c \in Conns : AttemptLockError(c)
  \/ \E c \in Conns : ReleaseError(c)

SpecErr == Init /\ [][NextErr]_vars

\* ------------------------------------------- any integer `retries` option
\* The constructor copies options.retries as it is (no validation): the
\* option may be negative.
AnyRetries == -1..MaxRetries

\* The value another process has stored at every key.
Foreign == "other"

\* Every key is held by another process, without expiry: the store rejects
\* every conditional write.
InitRejecting ==
  /\ constructed = {}
  /\ id = [l \in Locks |-> NoId]
  /\ locked = [l \in Locks |-> FALSE]
  /\ key = [l \in Locks |-> NoKey]
  /\ client = [l \in Locks |-> Nil]
  /\ shavaluator = [l \in Locks |-> NoHandle]
  /\ retries = [l \in Locks |-> DefaultRetries]
  /\ delay = [l \in Locks |-> DefaultDelay]
  /\ timeout = [l \in Locks |-> DefaultTimeout]
  /\ promisifiedClients = [c \in Conns |-> Nil]
  /\ shavaluators = [c \in Conns |-> NoHandle]
  /\ wrapped = [c \in Conns |-> 0]
  /\ registered = [c \in Conns |-> 0]
  /\ acquiredLocks = {}
  /\ store = [k \in Keys |-> Foreign]
  /\ ttl = [k \in Keys |-> 0]
  /\ reqQ = [c \in Conns |-> <<>>]
  /\ respQ = [c \in Conns |-> <<>>]
  /\ calls = [l \in Locks |-> [n \in Slots |-> NoCall]]
  /\ settled = NoOutcome
  /\ lapsed = {}

\* The program with Locks constructed with any integer `retries` option,
\* against that store.  No Lock ever becomes locked, so no release script is
\* sent.  A call is followed for MaxRetries + 1 attempts.
NextRejecting ==
  \/ \E l \in Locks, c \in Conns, r \in AnyRetries : Construct(l, c, r)
  \/ \E l \in Locks, k \in Keys : Acquire(l, k)
  \/ \E l \in Locks : Release(l)
  \/ \E c \in Conns : ServerSet(c)
  \/ \E c \in Conns : AttemptLockReply(c)
  \/ \E l \in Locks, n \in Slots :
       calls[l][n].attempts <= MaxRetries /\ DelayElapsed(l, n)

SpecRejecting == InitRejecting /\ [][NextRejecting]_vars

\* ------------------------------------------------------------ vocabulary
\* Connection c's oldest request, of the given command, is executed in this
\* step.
Executes(c, cmd) ==
  /\ reqQ[c] # <<>>
  /\ Head(reqQ[c]).cmd = cmd
  /\ reqQ'[c] = Tail(reqQ[c])

\* Connection c's oldest reply, to the given command, is handled in this step.
Handles(c, cmd) ==
  /\ respQ[c] # <<>>
  /\ Head(respQ[c]).cmd = cmd
  /\ respQ'[c] = Tail(respQ[c])

\* The script of a release call of Lock l has already deleted key k, and the
\* reply has not been handled yet.
ReleaseExecuted(l, k) ==
  \E n \in Slots : /\ calls[l][n].op = "release"
                   /\ calls[l][n].key = k
                   /\ calls[l][n].eff = "deleted"

\* --------------------------------------------------------------------- C1
\* C1 as stated: two Locks with different ids are never both locked for the
\* same key.
C1_NeverBothLocked ==
  \A a \in Locks, b \in Locks :
    (a # b /\ locked[a] /\ locked[b]) => key[a] # key[b]

\* C1, amended: when two Locks are both locked for the same key K, the store
\* holds the id of at most one of them, and the other one has lost K at the
\* store without having noticed yet: the value it wrote expired, or the
\* script of its own release call has already deleted it.
C1_Exclusion ==
  \A a \in Locks, b \in Locks :
    (a # b /\ locked[a] /\ locked[b] /\ key[a] = key[b]) =>
      /\ id[a] # id[b]
      /\ \E l \in {a, b} :
           /\ store[key[l]] # id[l]
           /\ l \in lapsed \/ ReleaseExecuted(l, key[l])

\* C1 witness: both Locks are locked for one key, which the later one owns.
C1_Witness ==
  \E a \in Locks, b \in Locks :
    /\ a # b /\ locked[a] /\ locked[b] /\ key[a] = key[b]
    /\ store[key[b]] = id[b]
    /\ a \in lapsed

\* --------------------------------------------------------------------- C2
\* C2: a step in which the server executes the release script of a Lock
\* whose id is not the value stored at the key leaves the store as it was,
\* and a step in which a script removes a stored value removes the id of the
\* Lock that sent it.
C2_ReleaseNoOp ==
  [][\A c \in Conns : Executes(c, "delifequal") =>
       LET m == Head(reqQ[c])
       IN  /\ store[m.key] # id[m.lock] => (store' = store /\ ttl' = ttl)
           /\ \A k \in Keys : store'[k] # store[k] =>
                (k = m.key /\ store[k] = id[m.lock] /\ store'[k] = Nil)]_vars

\* C2 witness: a release script has run as a no-op on a key that another
\* Lock has re-acquired.
C2_Witness ==
  \E l \in Locks, n \in Slots :
    /\ calls[l][n].op = "release"
    /\ calls[l][n].eff = "kept"
    /\ store[calls[l][n].key] \notin {Nil, id[l]}

\* --------------------------------------------------------------------- C3
\* C3: a release call whose script reported 0 settles with a ReleaseError
\* naming the key, and leaves the Lock not locked with its key cleared.
C3_ReleaseLost ==
  (settled.op = "release" /\ settled.eff = "kept") =>
    /\ settled.result = "LockReleaseError"
    /\ settled.errKey = settled.key
    /\ settled.errKey \in Keys
    /\ ~locked[settled.lock]
    /\ key[settled.lock] = NoKey

\* C3 witness: a release call has just failed because its key had expired.
C3_Witness ==
  /\ settled.op = "release"
  /\ settled.eff = "kept"
  /\ store[settled.key] = Nil

\* --------------------------------------------------------------------- C4
\* C4: the step in which the server executes the release script of a Lock
\* whose id is the stored value removes the key; the call then settles with
\* success and leaves the Lock not locked with its key cleared.
C4_ReleaseOwned ==
  /\ [][\A c \in Conns : Executes(c, "delifequal") =>
          LET m == Head(reqQ[c])
          IN  store[m.key] = id[m.lock] =>
                /\ store' = [store EXCEPT ![m.key] = Nil]
                /\ calls'[m.lock][m.call].eff = "deleted"
                /\ respQ'[c][Len(respQ'[c])].res = 1]_vars
  /\ []((settled.op = "release" /\ settled.eff = "deleted") =>
          /\ settled.result = "ok"
          /\ ~locked[settled.lock]
          /\ key[settled.lock] = NoKey)

\* C4 witness: a release call has just succeeded and its key is gone.
C4_Witness ==
  /\ settled.op = "release"
  /\ settled.result = "ok"
  /\ store[settled.key] = Nil

\* --------------------------------------------------------------------- C5
\* C5 as stated: a Lock whose acquire has just succeeded is in the
\* acquired-locks set, and a Lock whose release has just succeeded is not.
C5_Registry ==
  /\ (settled.op = "acquire" /\ settled.result = "ok") =>
       id[settled.lock] \in acquiredLocks
  /\ (settled.op = "release" /\ settled.result = "ok") =>
       id[settled.lock] \notin acquiredLocks

\* --------------------------------------------------------------------- C6
\* C6: acquire(k) on a Lock that reports locked settles in the same step with
\* the already-held error, sends no request, and leaves locked, key, the
\* store and every call in flight as they were, whatever k is.
C6_AlreadyHeld ==
  [][\A l \in Locks, k \in Keys : (locked[l] /\ Acquire(l, k)) =>
       /\ settled'.lock = l
       /\ settled'.op = "acquire"
       /\ settled'.result = "LockAcquisitionError:held"
       /\ settled'.attempts = 0
       /\ UNCHANGED <<reqQ, respQ, store, ttl, locked, key, calls>>]_vars

\* C6 witness: acquire has just failed on a locked Lock, for a key other
\* than the one it holds.
C6_Witness ==
  /\ settled.result = "LockAcquisitionError:held"
  /\ locked[settled.lock]
  /\ settled.key # key[settled.lock]

\* --------------------------------------------------------------------- C7
\* C7: release() on a Lock that is not locked settles in the same step with
\* a ReleaseError, sends no request, and leaves the store, the Lock and every
\* call in flight as they were.
C7_NotAcquired ==
  [][\A l \in Locks : (~locked[l] /\ Release(l)) =>
       /\ settled'.lock = l
       /\ settled'.op = "release"
       /\ settled'.result = "LockReleaseError:notAcquired"
       /\ settled'.attempts = 0
       /\ UNCHANGED <<reqQ, respQ, store, ttl, locked, key, calls>>]_vars

\* C7 witness: release has just failed on a Lock that had acquired and
\* released before.
C7_Witness ==
  /\ settled.result = "LockReleaseError:notAcquired"
  /\ id[settled.lock] \in acquiredLocks

\* --------------------------------------------------------------------- C8
\* The requests and replies on their way that belong to call n of Lock l.
Outstanding(l, n) ==
  Cardinality(UNION {{<<c, i>> : i \in {j \in DOMAIN reqQ[c] :
                        reqQ[c][j].lock = l /\ reqQ[c][j].call = n}} :
                     c \in Conns})
  + Cardinality(UNION {{<<c, i>> : i \in {j \in DOMAIN respQ[c] :
                          respQ[c][j].lock = l /\ respQ[c][j].call = n}} :
                       c \in Conns})

\* C8: an acquire call on a Lock with retries = N >= 0 has used, at any
\* moment, as many attempts as the retries it has used up plus one, with one
\* delay between consecutive attempts; it fails, with an AcquisitionError
\* naming the key, exactly when its attempt number N+1 is rejected (after N
\* delays); it succeeds at the first attempt that is not rejected; and a
\* call that has settled has no request on its way.
C8_Retries ==
  /\ \A l \in Locks, n \in Slots :
       LET cl == calls[l][n]
       IN  /\ cl.pc = "free" => Outstanding(l, n) = 0
           /\ cl.pc = "delay" => Outstanding(l, n) = 0
           /\ cl.pc = "wait" => Outstanding(l, n) = 1
           /\ cl.op = "acquire" =>
                /\ cl.retries >= 0
                /\ cl.attempts + cl.retries = retries[l] + 1
                /\ cl.delays = cl.attempts - (IF cl.pc = "wait" THEN 1 ELSE 0)
  /\ (settled.op = "acquire" /\ settled.result = "LockAcquisitionError") =>
       /\ settled.attempts = settled.opt + 1
       /\ settled.delays = settled.opt
       /\ settled.eff = "rejected"
       /\ settled.errKey = settled.key
  /\ (settled.op = "acquire" /\ settled.result = "ok") =>
       /\ settled.attempts <= settled.opt + 1
       /\ settled.delays = settled.attempts - 1
       /\ settled.eff = "written"
  /\ (settled.op = "acquire" /\ settled.attempts > 0) =>
       settled.result = (IF settled.eff = "written"
                           THEN "ok" ELSE "LockAcquisitionError")

\* C8 witness: an acquire call with retries = MaxRetries has just failed
\* after MaxRetries + 1 rejected attempts.
C8_Witness ==
  /\ settled.op = "acquire"
  /\ settled.result = "LockAcquisitionError"
  /\ settled.opt = MaxRetries
  /\ settled.attempts = MaxRetries + 1
  /\ settled.delays = MaxRetries

\* --------------------------------------------------------------------- C9
\* C9: a step that makes a Lock locked, or gives lock.key a new key, handles
\* the reply OK to a conditional write of that Lock which the server has
\* executed as a write, and sets lock.key to the key of that write; and a
\* step in which the server executes a conditional write that changes the
\* store writes the id of the Lock that sent it, with the Lock's timeout as
\* expiry, at a key that was absent.
C9_LockedAfterWrite ==
  [][/\ \A l \in Locks :
          ((locked'[l] /\ ~locked[l]) \/ (key'[l] # key[l] /\ key'[l] # NoKey))
          => \E c \in Conns :
               /\ Handles(c, "set")
               /\ Head(respQ[c]).lock = l
               /\ Head(respQ[c]).res = 1
               /\ calls[l][Head(respQ[c]).call].eff = "written"
               /\ key'[l] = calls[l][Head(respQ[c]).call].key
               /\ locked'[l]
               /\ settled'.result = "ok"
               /\ settled'.lock = l
     /\ \A c \in Conns : (Executes(c, "set") /\ store' # store) =>
          LET m == Head(reqQ[c])
          IN  /\ store[m.key] = Nil
              /\ m.val = id[m.lock]
              /\ store' = [store EXCEPT ![m.key] = id[m.lock]]
              /\ ttl'[m.key] = timeout[m.lock]
              /\ calls'[m.lock][m.call].eff = "written"]_vars

\* C9 witness: acquire has just succeeded; the Lock is locked with the key
\* of the call and the store holds the Lock's id there.
C9_Witness ==
  /\ settled.op = "acquire"
  /\ settled.result = "ok"
  /\ locked[settled.lock]
  /\ key[settled.lock] = settled.key
  /\ store[settled.key] = id[settled.lock]

\* -------------------------------------------------------------------- C10
\* C10: hand-over.  A conditional write on a key that holds a value is
\* rejected and leaves the store as it was; on a Lock with retries = 0 the
\* call then fails with an AcquisitionError naming the key, without a retry,
\* and leaves locked and key as they were.  A release call that succeeds has
\* deleted its key, and the key is absent right after the script.  A
\* conditional write on an absent key stores the sender's id, and the call
\* succeeds on that attempt.
C10_HandOver ==
  /\ [][/\ \A c \in Conns : Executes(c, "set") =>
             LET m == Head(reqQ[c])
                 r == respQ'[c][Len(respQ'[c])]
             IN  IF store[m.key] # Nil
                   THEN /\ store' = store
                        /\ r.res = 0
                        /\ calls'[m.lock][m.call].eff = "rejected"
                   ELSE /\ store'[m.key] = id[m.lock]
                        /\ r.res = 1
                        /\ calls'[m.lock][m.call].eff = "written"
        /\ \A c \in Conns : (Executes(c, "delifequal") /\ store' # store) =>
             store'[Head(reqQ[c]).key] = Nil
        /\ \A c \in Conns : (Handles(c, "set") /\ Head(respQ[c]).res = 0) =>
             UNCHANGED <<locked, key>>]_vars
  /\ [](/\ \A l \in Locks, n \in Slots :
             calls[l][n].pc = "delay" => retries[l] > 0
        /\ (settled.op = "acquire" /\ settled.opt = 0
              /\ settled.eff = "rejected") =>
             /\ settled.result = "LockAcquisitionError"
             /\ settled.errKey = settled.key
             /\ settled.attempts = 1
        /\ (settled.op = "release" /\ settled.result = "ok") =>
             settled.eff = "deleted"
        /\ (settled.op = "acquire" /\ settled.eff = "written") =>
             /\ settled.result = "ok"
             /\ locked[settled.lock]
             /\ key[settled.lock] = settled.key)

\* C10 witness: Lock b, with retries = 0, has just acquired a key on its
\* first attempt; Lock a, which had acquired before, is not locked any more,
\* no key has expired under a holder, and nothing else is in flight.
C10_Witness ==
  \E a \in Locks, b \in Locks :
    /\ a # b
    /\ settled.lock = b /\ settled.op = "acquire" /\ settled.result = "ok"
    /\ settled.opt = 0 /\ settled.attempts = 1
    /\ id[a] \in acquiredLocks /\ ~locked[a]
    /\ store = [k \in Keys |-> IF k = settled.key THEN id[b] ELSE Nil]
    /\ lapsed = {}
    /\ InFlight = 0

\* -------------------------------------------------------------------- C11
\* C11: a step that handles an error answer to a request of a call settles
\* that call at once with the error itself as its outcome: no request is
\* sent, no delay is started and the call is gone, even when retries remain;
\* and the step leaves locked and key of every Lock as they were.
C11_TransportError ==
  [][\A c \in Conns : Handles(c, "error") =>
       LET m == Head(respQ[c])
           cl == calls[m.lock][m.call]
       IN  /\ settled'.lock = m.lock
           /\ settled'.op = cl.op
           /\ settled'.result = "TransportError"
           /\ settled'.attempts = cl.attempts
           /\ settled'.delays = cl.delays
           /\ calls'[m.lock][m.call] = NoCall
           /\ \A d \in Conns :
                /\ \A i \in DOMAIN reqQ'[d] :
                     <<reqQ'[d][i].lock, reqQ'[d][i].call>> # <<m.lock, m.call>>
                /\ \A i \in DOMAIN respQ'[d] :
                     <<respQ'[d][i].lock, respQ'[d][i].call>> # <<m.lock, m.call>>
           /\ reqQ' = reqQ
           /\ UNCHANGED <<locked, key, store, ttl>>]_vars

\* C11 witness: an acquire call has just failed with a transport error on
\* its first attempt although retries remained.
C11_Witness ==
  /\ settled.op = "acquire"
  /\ settled.result = "TransportError"
  /\ settled.opt > 0
  /\ settled.attempts = 1
  /\ settled.delays = 0
  /\ ~locked[settled.lock]

\* -------------------------------------------------------------------- C12
\* C12 as stated: whatever state the Lock is in when the call is made, a
\* call that settles invokes the completion callback it was given exactly
\* once, with the outcome the call reports.
C12_Callback ==
  settled.op # "none" =>
    /\ settled.fnCalls = 1
    /\ settled.fnResult = settled.result

\* -------------------------------------------------------------------- C13
\* C13: each registry holds an entry for exactly the connections that Locks
\* were constructed on, each connection was wrapped once and had delifequal
\* added once, and Locks on one connection use the same client and the same
\* script handle while Locks on different connections use different ones; a
\* construction on a connection already seen wraps nothing, registers
\* nothing and hands the Lock the entries that are there, a construction on
\* a new connection adds its entry to each registry; and no step removes or
\* replaces an entry.
C13_Registries ==
  /\ [](/\ \A c \in Conns :
             LET seen == \E l \in constructed : client[l] = c
             IN  /\ (promisifiedClients[c] # Nil) = seen
                 /\ (shavaluators[c] # NoHandle) = seen
                 /\ promisifiedClients[c] \in {Nil, c}
                 /\ wrapped[c] = (IF seen THEN 1 ELSE 0)
                 /\ registered[c] = (IF seen THEN 1 ELSE 0)
        /\ \A a \in constructed, b \in constructed :
             /\ client[a] = promisifiedClients[client[a]]
             /\ shavaluator[a] = shavaluators[client[a]]
             /\ (client[a] = client[b]) = (shavaluator[a] = shavaluator[b]))
  /\ [][/\ \A l \in Locks, c \in Conns, r \in RetryOptions :
             Construct(l, c, r) =>
               /\ client'[l] = c
               /\ IF promisifiedClients[c] # Nil
                    THEN /\ UNCHANGED <<promisifiedClients, shavaluators,
                                        wrapped, registered>>
                         /\ shavaluator'[l] = shavaluators[c]
                    ELSE /\ wrapped' = [wrapped EXCEPT ![c] = 1]
                         /\ registered' = [registered EXCEPT ![c] = 1]
                         /\ promisifiedClients' =
                              [promisifiedClients EXCEPT ![c] = c]
                         /\ \A d \in Conns \ {c} :
                              shavaluators'[d] = shavaluators[d]
                         /\ shavaluator'[l] = shavaluators'[c]
        /\ \A c \in Conns :
             /\ promisifiedClients[c] # Nil =>
                  promisifiedClients'[c] = promisifiedClients[c]
             /\ shavaluators[c] # NoHandle =>
                  shavaluators'[c] = shavaluators[c]]_vars

\* C13 witness: two Locks have been constructed on one connection.
C13_Witness ==
  \E a \in constructed, b \in constructed :
    /\ a # b
    /\ client[a] = client[b]
    /\ shavaluator[a] = shavaluator[b]
    /\ wrapped[client[a]] = 1
    /\ registered[client[a]] = 1

\* -------------------------------------------------------------------- C14
\* The conditional writes of Lock l that have been sent and whose answer
\* has not been handled yet.
OutstandingWrites(l) ==
  UNION {{<<"request", c, i>> : i \in {j \in DOMAIN reqQ[c] :
            reqQ[c][j].lock = l /\ reqQ[c][j].cmd = "set"}} : c \in Conns}
  \cup
  UNION {{<<"reply", c, i>> : i \in {j \in DOMAIN respQ[c] :
            respQ[c][j].lock = l /\ respQ[c][j].cmd = "set"}} : c \in Conns}

\* C14 as stated: at any time at most one conditional write of a Lock is
\* outstanding, whatever acquire calls have been made on it.
C14_OneWrite ==
  \A l \in Locks : Cardinality(OutstandingWrites(l)) <= 1

\* -------------------------------------------------------------------- C15
\* C15: a step in which a Lock stops being locked handles the reply (1 or 0)
\* to the script of one of its own release calls, settles that call with
\* success or with a ReleaseError and clears the Lock's key; and any step
\* that changes locked or key of a Lock handles a reply to a request of that
\* Lock.  So an expiry at the store, and every call, request and reply of
\* another Lock, leave locked and key of this Lock as they were.
C15_OnlyRelease ==
  [][\A l \in Locks :
       /\ (locked[l] /\ ~locked'[l]) =>
            \E c \in Conns :
              /\ Handles(c, "delifequal")
              /\ Head(respQ[c]).lock = l
              /\ Head(respQ[c]).res \in {0, 1}
              /\ settled'.lock = l
              /\ settled'.op = "release"
              /\ settled'.result =
                   (IF Head(respQ[c]).res = 1 THEN "ok" ELSE "LockReleaseError")
              /\ key'[l] = NoKey
       /\ (locked'[l] # locked[l] \/ key'[l] # key[l]) =>
            \E c \in Conns :
              /\ respQ[c] # <<>>
              /\ respQ'[c] = Tail(respQ[c])
              /\ Head(respQ[c]).lock = l
              /\ Head(respQ[c]).cmd \in {"set", "delifequal"}
              /\ UNCHANGED <<store, ttl>>]_vars

\* C15 witness: Lock b has just released key K, which it had acquired after
\* Lock a's value at K expired, and Lock a is still locked with key K.
C15_Witness ==
  \E a \in Locks, b \in Locks :
    /\ a # b
    /\ locked[a] /\ a \in lapsed
    /\ settled.lock = b /\ settled.op = "release" /\ settled.result = "ok"
    /\ settled.key = key[a]
    /\ store[key[a]] = Nil

\* -------------------------------------------------------------------- C16
\* C16: the id a Lock got from its constructor is never changed by a later
\* step, and differs from the id of every other Lock; every conditional
\* write and every release script on its way carries the id of the Lock
\* that sent it, and a value in the store is the id of a constructed Lock.
C16_StableId ==
  /\ [](/\ \A l \in constructed : id[l] # NoId
        /\ \A a \in constructed, b \in constructed : a # b => id[a] # id[b]
        /\ \A c \in Conns : \A i \in DOMAIN reqQ[c] :
             /\ reqQ[c][i].lock \in constructed
             /\ reqQ[c][i].val = id[reqQ[c][i].lock]
        /\ \A k \in Keys :
             store[k] # Nil => \E l \in constructed : store[k] = id[l])
  /\ [][\A l \in constructed : id'[l] = id[l]]_vars

\* C16 witness: a Lock that has acquired and released before has a
\* conditional write on its way again, and it carries the Lock's id.
C16_Witness ==
  \E l \in Locks, c \in Conns :
    /\ id[l] \in acquiredLocks
    /\ ~locked[l]
    /\ reqQ[c] # <<>>
    /\ Head(reqQ[c]).lock = l
    /\ Head(reqQ[c]).cmd = "set"
    /\ Head(reqQ[c]).val = id[l]
    /\ \A k \in Keys : store[k] = Nil

\* -------------------------------------------------------------------- C17
\* A release call of Lock l is in flight.
Releasing(l) == \E n \in Slots : calls[l][n].op = "release"

KeysOf(l) == {k \in Keys : store[k] = id[l]}

\* C18 as stated: the store holds the id of a Lock at one key at most, and
\* at no key when the Lock is not locked and has no call in flight.
C18_NoOrphan ==
  \A l \in constructed :
    /\ Cardinality(KeysOf(l)) <= 1
    /\ (~locked[l] /\ Unsettled(l) = {}) => KeysOf(l) = {}

\* -------------------------------------------------------------------- C19
\* C19 as stated, its second part: when an acquire call of a Lock has just
\* succeeded and the value it wrote has not expired, the store holds the
\* Lock's id at the key of the call: no release call started before this
\* success has deleted the key that this acquire wrote.
C19_ReleaseCycle ==
  (/\ settled.op = "acquire"
   /\ settled.result = "ok"
   /\ settled.lock \notin lapsed) =>
     store[settled.key] = id[settled.lock]

\* -------------------------------------------------------------------- C20
\* C20 as stated, for Locks constructed with any integer `retries`: the
\* remaining-retries counter of an attempt is never negative, and a call
\* waits for another attempt only while retries remain, so that it settles
\* after finitely many attempts.
C20_Terminates ==
  \A l \in Locks, n \in Slots :
    calls[l][n].op = "acquire" =>
      /\ calls[l][n].retries >= 0
      /\ calls[l][n].pc = "delay" => calls[l][n].retries > 0

====
